---- MODULE Spec2Model ----
(***************************************************************************)
(* ChronoLock: the audio-to-emotion inference engine of                    *)
(* src/components/EmotionAnalysis.tsx (feature extraction, normalization,  *)
(* candidate scoring, classification), the record page that runs it, and   *)
(* the storage that keeps its result with a time-locked recording, as      *)
(* state machines over one set of variables.                               *)
(*                                                                         *)
(* Numbers.  A JavaScript number is modelled in fixed point: the real x is *)
(* the integer x * Scale (rounded towards minus infinity by every          *)
(* division), and the three IEEE-754 values that are not real numbers are  *)
(* three reserved integers: NaN, PosInf, NegInf.  The X-operators below    *)
(* are the IEEE-754 operations on that representation.                     *)
(***************************************************************************)
EXTENDS Integers, Sequences, FiniteSets, TLC

Scale == 10000

NaN == 2100000000

PosInf == 2000000000

NegInf == -2000000000

IsFinite(x) == x # NaN /\ x # PosInf /\ x # NegInf

\* a + b
XAdd(a, b) ==
  IF a = NaN \/ b = NaN THEN NaN
  ELSE IF a = PosInf THEN (IF b = NegInf THEN NaN ELSE PosInf)
  ELSE IF a = NegInf THEN (IF b = PosInf THEN NaN ELSE NegInf)
  ELSE IF b = PosInf \/ b = NegInf THEN b
  ELSE a + b

\* -a
XNeg(a) ==
  IF a = NaN THEN NaN
  ELSE IF a = PosInf THEN NegInf
  ELSE IF a = NegInf THEN PosInf
  ELSE 0 - a

\* a - b
XSub(a, b) == XAdd(a, XNeg(b))

\* a * c for a finite constant c > 0 (c is a plain integer factor)
XMulC(a, c) == IF IsFinite(a) THEN a * c ELSE a

\* a / c for a finite constant c > 0 (c is a plain integer divisor)
XDivC(a, c) == IF IsFinite(a) THEN a \div c ELSE a

\* Math.max(a, b)
XMax(a, b) == IF a = NaN \/ b = NaN THEN NaN ELSE IF a > b THEN a ELSE b

\* Math.min(a, b)
XMin(a, b) == IF a = NaN \/ b = NaN THEN NaN ELSE IF a < b THEN a ELSE b

\* Math.abs(a)
XAbs(a) ==
  IF a = NaN THEN NaN
  ELSE IF a = PosInf \/ a = NegInf THEN PosInf
  ELSE IF a < 0 THEN 0 - a ELSE a

\* a > b
XGt(a, b) == a # NaN /\ b # NaN /\ a > b

\* a < b
XLt(a, b) == a # NaN /\ b # NaN /\ a < b

\* the decimal literal p/100 in units of 1/Scale
Lit(p) == p * (Scale \div 100)

\* s[lo] + ... + s[hi], summed by halves
RECURSIVE SumRange(_, _, _)
SumRange(s, lo, hi) ==
  IF lo > hi THEN 0
  ELSE IF lo = hi THEN s[lo]
  ELSE SumRange(s, lo, (lo + hi) \div 2) + SumRange(s, (lo + hi) \div 2 + 1, hi)

SumSeq(s) == SumRange(s, 1, Len(s))

(***************************************************************************)
(* The candidate catalog, in the order of the emotionScores object literal *)
(* (which is the order Object.entries enumerates it in).                   *)
(***************************************************************************)
Tones ==
  << "Joyful", "Excited", "Hopeful", "Grateful", "Peaceful", "Determined",
     "Nostalgic", "Contemplative", "Melancholic",
     "Sad", "Anxious", "Worried", "Angry", "Frustrated", "Confused", "Lonely" >>

ToneSet == {Tones[i] : i \in 1..Len(Tones)}

Neutral == "Neutral"

(***************************************************************************)
(* Normalization of the weighted-score classifier.                         *)
(***************************************************************************)
\* Math.min(Math.max(x, 0), 1)
Clamp01(x) == XMin(XMax(x, 0), Scale)

\* the amplitude scale of the gated-cascade build used in the weighted-score build
NormalizeMutAmplitude(f) ==
  [ amplitude |-> Clamp01(XMulC(f.averageAmplitude, 10)),
    variance  |-> Clamp01(XMulC(f.energyVariance, 10)),
    zcr       |-> Clamp01(XDivC(XMulC(f.zeroCrossingRate, 100), 5)),
    centroid  |-> Clamp01(XDivC(f.spectralCentroid, 2000)),
    tempo     |-> Clamp01(XDivC(f.tempo, 100)),
    pitchVar  |-> Clamp01(XMulC(f.pitchVariation, 5)),
    lowFreq   |-> Clamp01(XMulC(f.lowFrequencyEnergy, 10)),
    highFreq  |-> Clamp01(XMulC(f.highFrequencyEnergy, 10)),
    stability |-> Clamp01(XMulC(f.voiceStability, 3)) ]

Normalize(f) ==
  [ amplitude |-> Clamp01(XMulC(f.averageAmplitude, 20)),
    variance  |-> Clamp01(XMulC(f.energyVariance, 10)),
    zcr       |-> Clamp01(XDivC(XMulC(f.zeroCrossingRate, 100), 5)),
    centroid  |-> Clamp01(XDivC(f.spectralCentroid, 2000)),
    tempo     |-> Clamp01(XDivC(f.tempo, 100)),
    pitchVar  |-> Clamp01(XMulC(f.pitchVariation, 5)),
    lowFreq   |-> Clamp01(XMulC(f.lowFrequencyEnergy, 10)),
    highFreq  |-> Clamp01(XMulC(f.highFrequencyEnergy, 10)),
    stability |-> Clamp01(XMulC(f.voiceStability, 3)) ]

(***************************************************************************)
(* The sixteen candidate score functions.  Weights are in hundredths, a    *)
(* jitter factor j = 0.8 + Math.random() * 0.4 is in tenths, so a score is *)
(* in units of 1 / (Scale * 1000).                                         *)
(***************************************************************************)
ScoreUnit == Scale * 1000

\* the last weight of Contemplative mistyped: 0.25 for 0.15
WeightsMutHeavy ==
  [ Joyful        |-> <<30, 30, 20, 20>>,
    Excited       |-> <<25, 25, 25, 25>>,
    Hopeful       |-> <<20, 30, 30, 20>>,
    Grateful      |-> <<25, 35, 20, 20>>,
    Peaceful      |-> <<30, 30, 20, 20>>,
    Determined    |-> <<25, 35, 20, 20>>,
    Nostalgic     |-> <<30, 30, 20, 20>>,
    Contemplative |-> <<25, 35, 25, 25>>,
    Melancholic   |-> <<30, 30, 20, 20>>,
    Sad           |-> <<30, 30, 20, 20>>,
    Anxious       |-> <<30, 30, 20, 20>>,
    Worried       |-> <<25, 25, 25, 25>>,
    Angry         |-> <<30, 30, 20, 20>>,
    Frustrated    |-> <<30, 25, 25, 20>>,
    Confused      |-> <<25, 25, 25, 25>>,
    Lonely        |-> <<30, 30, 20, 20>> ]

Weights ==
  [ Joyful        |-> <<30, 30, 20, 20>>,
    Excited       |-> <<25, 25, 25, 25>>,
    Hopeful       |-> <<20, 30, 30, 20>>,
    Grateful      |-> <<25, 35, 20, 20>>,
    Peaceful      |-> <<30, 30, 20, 20>>,
    Determined    |-> <<25, 35, 20, 20>>,
    Nostalgic     |-> <<30, 30, 20, 20>>,
    Contemplative |-> <<25, 35, 25, 15>>,
    Melancholic   |-> <<30, 30, 20, 20>>,
    Sad           |-> <<30, 30, 20, 20>>,
    Anxious       |-> <<30, 30, 20, 20>>,
    Worried       |-> <<25, 25, 25, 25>>,
    Angry         |-> <<30, 30, 20, 20>>,
    Frustrated    |-> <<30, 25, 25, 20>>,
    Confused      |-> <<25, 25, 25, 25>>,
    Lonely        |-> <<30, 30, 20, 20>> ]

\* t1 * w1 + t2 * w2 + t3 * w3 + t4 * w4, in units of 1 / (Scale * 100)
WeightedSum(t, w) ==
  XAdd(XAdd(XAdd(XMulC(t[1], w[1]), XMulC(t[2], w[2])), XMulC(t[3], w[3])),
       XMulC(t[4], w[4]))

\* (weighted sum) * (0.8 + Math.random() * 0.4)
Jittered(t, w, j) == XMulC(WeightedSum(t, w), j)

\* Math.max(0, c - x) for the decimal literal c = p/100
LowScore(p, x) == XMax(0, XSub(Lit(p), x))

\* 1 - Math.abs(x - c) for the decimal literal c = p/100
ModerateScore(p, x) == XSub(Scale, XAbs(XSub(x, Lit(p))))

\* the amplitude term inverted, as in calculatePeacefulScore
JoyfulTermsMutInverted(amplitude, tempo, highFreq, stability) ==
  <<LowScore(70, amplitude), tempo, highFreq, stability>>

JoyfulTerms(amplitude, tempo, highFreq, stability) ==
  <<amplitude, tempo, highFreq, stability>>

ExcitedTerms(amplitude, tempo, variance, pitchVar) ==
  <<amplitude, tempo, variance, pitchVar>>

HopefulTerms(amplitude, centroid, stability, highFreq) ==
  <<amplitude, centroid, stability, highFreq>>

GratefulTerms(amplitude, stability, lowFreq, silenceRatio) ==
  <<amplitude, stability, lowFreq, LowScore(50, silenceRatio)>>

PeacefulTerms(amplitude, stability, silenceRatio, variance) ==
  <<LowScore(70, amplitude), stability, silenceRatio, LowScore(80, variance)>>

DeterminedTerms(amplitude, stability, tempo, zcr) ==
  <<amplitude, stability, tempo, zcr>>

\* the amplitude term of calculateMelancholicScore in place of moderateAmplitudeScore
NostalgicTermsMutLowAmplitude(amplitude, tempo, silenceRatio, stability) ==
  <<LowScore(50, amplitude), LowScore(60, tempo), silenceRatio, stability>>

NostalgicTerms(amplitude, tempo, silenceRatio, stability) ==
  <<ModerateScore(50, amplitude), LowScore(60, tempo), silenceRatio, stability>>

ContemplativeTerms(amplitude, silenceRatio, stability, tempo) ==
  <<ModerateScore(40, amplitude), silenceRatio, stability, LowScore(50, tempo)>>

MelancholicTerms(amplitude, tempo, stability, silenceRatio) ==
  <<LowScore(60, amplitude), LowScore(50, tempo), stability, silenceRatio>>

SadTerms(amplitude, tempo, stability, silenceRatio) ==
  <<LowScore(50, amplitude), LowScore(40, tempo), LowScore(60, stability),
    silenceRatio>>

AnxiousTerms(variance, stability, breathingPatterns, tempo) ==
  <<variance, LowScore(70, stability), breathingPatterns, tempo>>

WorriedTerms(amplitude, pitchVar, stability, variance) ==
  <<ModerateScore(50, amplitude), pitchVar, LowScore(60, stability), variance>>

AngryTerms(amplitude, variance, tempo, lowFreq) ==
  <<amplitude, variance, tempo, lowFreq>>

FrustratedTerms(variance, amplitude, stability, tempo) ==
  <<variance, amplitude, LowScore(60, stability), tempo>>

ConfusedTerms(variance, stability, silenceRatio, pitchVar) ==
  <<variance, LowScore(70, stability), silenceRatio, pitchVar>>

\* duration is in seconds; Math.min(duration / 30, 1)
LonelyTerms(amplitude, tempo, silenceRatio, duration) ==
  <<LowScore(50, amplitude), LowScore(40, tempo), silenceRatio,
    XMin(XDivC(duration, 30), Scale)>>

\* the values handed to the score functions: the nine normalized features and the three
\* raw features silenceRatio, breathingPatterns and duration
ScorerInputs(f) ==
  LET n == Normalize(f) IN
  [ amplitude |-> n.amplitude, variance |-> n.variance, zcr |-> n.zcr,
    centroid |-> n.centroid, tempo |-> n.tempo, pitchVar |-> n.pitchVar,
    lowFreq |-> n.lowFreq, highFreq |-> n.highFreq, stability |-> n.stability,
    silenceRatio |-> f.silenceRatio, breathingPatterns |-> f.breathingPatterns,
    duration |-> f.duration ]

\* the arguments of each score function at its call site in the emotionScores literal
ScoreInputs ==
  [ Joyful        |-> <<"amplitude", "tempo", "highFreq", "stability">>,
    Excited       |-> <<"amplitude", "tempo", "variance", "pitchVar">>,
    Hopeful       |-> <<"amplitude", "centroid", "stability", "highFreq">>,
    Grateful      |-> <<"amplitude", "stability", "lowFreq", "silenceRatio">>,
    Peaceful      |-> <<"amplitude", "stability", "silenceRatio", "variance">>,
    Determined    |-> <<"amplitude", "stability", "tempo", "zcr">>,
    Nostalgic     |-> <<"amplitude", "tempo", "silenceRatio", "stability">>,
    Contemplative |-> <<"amplitude", "silenceRatio", "stability", "tempo">>,
    Melancholic   |-> <<"amplitude", "tempo", "stability", "silenceRatio">>,
    Sad           |-> <<"amplitude", "tempo", "stability", "silenceRatio">>,
    Anxious       |-> <<"variance", "stability", "breathingPatterns", "tempo">>,
    Worried       |-> <<"amplitude", "pitchVar", "stability", "variance">>,
    Angry         |-> <<"amplitude", "variance", "tempo", "lowFreq">>,
    Frustrated    |-> <<"variance", "amplitude", "stability", "tempo">>,
    Confused      |-> <<"variance", "stability", "silenceRatio", "pitchVar">>,
    Lonely        |-> <<"amplitude", "tempo", "silenceRatio", "duration">> ]

\* the four terms candidate e sums when its score function is called with the values v
ScoreTerms(e, v) ==
  LET a == ScoreInputs[e]
      x1 == v[a[1]]
      x2 == v[a[2]]
      x3 == v[a[3]]
      x4 == v[a[4]]
  IN CASE e = "Joyful"        -> JoyfulTerms(x1, x2, x3, x4)
       [] e = "Excited"       -> ExcitedTerms(x1, x2, x3, x4)
       [] e = "Hopeful"       -> HopefulTerms(x1, x2, x3, x4)
       [] e = "Grateful"      -> GratefulTerms(x1, x2, x3, x4)
       [] e = "Peaceful"      -> PeacefulTerms(x1, x2, x3, x4)
       [] e = "Determined"    -> DeterminedTerms(x1, x2, x3, x4)
       [] e = "Nostalgic"     -> NostalgicTerms(x1, x2, x3, x4)
       [] e = "Contemplative" -> ContemplativeTerms(x1, x2, x3, x4)
       [] e = "Melancholic"   -> MelancholicTerms(x1, x2, x3, x4)
       [] e = "Sad"           -> SadTerms(x1, x2, x3, x4)
       [] e = "Anxious"       -> AnxiousTerms(x1, x2, x3, x4)
       [] e = "Worried"       -> WorriedTerms(x1, x2, x3, x4)
       [] e = "Angry"         -> AngryTerms(x1, x2, x3, x4)
       [] e = "Frustrated"    -> FrustratedTerms(x1, x2, x3, x4)
       [] e = "Confused"      -> ConfusedTerms(x1, x2, x3, x4)
       [] e = "Lonely"        -> LonelyTerms(x1, x2, x3, x4)

\* the four terms each candidate sums, from the call sites of the emotionScores literal
Terms(f) == LET v == ScorerInputs(f) IN [e \in ToneSet |-> ScoreTerms(e, v)]

\* the emotionScores object: one score per candidate, each with its own jitter draw
EmotionScores(f, jit) ==
  LET t == Terms(f) IN
  [e \in ToneSet |-> Jittered(t[e], Weights[e], jit[e])]

(***************************************************************************)
(* determineEmotionFromFeatures, weighted-score classifier: the reduce     *)
(* over Object.entries(emotionScores) and the intensity calibration.       *)
(* An intensity is in units of 1 / IntensityUnit.                          *)
(***************************************************************************)
IntensityUnit == ScoreUnit * 10

HalfIntensity == IntensityUnit \div 2

\* (best, [emotion, score]) => score > best.score ? {emotion, score} : best
\* !(score <= best.score) for score > best.score: a NaN score replaces the best
ReduceStepMutNaN(best, emotion, score) ==
  IF ~(score # NaN /\ best.score # NaN /\ score <= best.score)
  THEN [emotion |-> emotion, score |-> score] ELSE best

ReduceStep(best, emotion, score) ==
  IF XGt(score, best.score) THEN [emotion |-> emotion, score |-> score] ELSE best

RECURSIVE ReduceFromMutReverse(_, _, _)
RECURSIVE ReduceFrom(_, _, _)
\* the entries visited from the last to the first
ReduceFromMutReverse(scores, k, best) ==
  IF k > Len(Tones) THEN best
  ELSE ReduceFromMutReverse(scores, k + 1,
                            ReduceStep(best, Tones[Len(Tones) + 1 - k],
                                       scores[Tones[Len(Tones) + 1 - k]]))

\* Object.entries(emotionScores).reduce(..., best), entries k.. in insertion order
ReduceFrom(scores, k, best) ==
  IF k > Len(Tones) THEN best
  ELSE ReduceFrom(scores, k + 1, ReduceStep(best, Tones[k], scores[Tones[k]]))

\* the reduce started from the default tone of the earliest build, 'Peaceful'
BestEmotionMutPeaceful(scores) == ReduceFrom(scores, 1, [emotion |-> "Peaceful", score |-> 0])

BestEmotion(scores) == ReduceFrom(scores, 1, [emotion |-> Neutral, score |-> 0])

\* Math.min(Math.max(bestEmotion.score * randomFactor, 0.5), 1.0)
\* the lower clamp left out
FinalIntensityMutNoFloor(score, randomFactor) ==
  XMin(XMulC(score, randomFactor), IntensityUnit)

FinalIntensity(score, randomFactor) ==
  XMin(XMax(XMulC(score, randomFactor), HalfIntensity), IntensityUnit)

determineEmotionFromFeatures(f, jit, randomFactor) ==
  LET bestEmotion == BestEmotion(EmotionScores(f, jit)) IN
  [ tone |-> bestEmotion.emotion,
    intensity |-> FinalIntensity(bestEmotion.score, randomFactor) ]

(***************************************************************************)
(* determineEmotionFromFeatures, gated cascade (the build whose classifier *)
(* is an if / else-if chain).  Its normalization clamps from above only.   *)
(***************************************************************************)
NormalizeGated(f) ==
  [ amplitude |-> XMin(XMulC(f.averageAmplitude, 10), Scale),
    variance  |-> XMin(XMulC(f.energyVariance, 5), Scale),
    zcr       |-> XMin(XMulC(f.zeroCrossingRate, 10), Scale),
    centroid  |-> XMin(XDivC(f.spectralCentroid, 4000), Scale),
    tempo     |-> XMin(XDivC(f.tempo, 200), Scale),
    pitchVar  |-> XMin(XMulC(f.pitchVariation, 2), Scale),
    lowFreq   |-> XMin(XMulC(f.lowFrequencyEnergy, 3), Scale),
    highFreq  |-> XMin(XMulC(f.highFrequencyEnergy, 3), Scale),
    stability |-> XMin(XMulC(f.voiceStability, 2), Scale) ]

\* the rules in the order of the chain: tone, base and range of the intensity (hundredths)
GatedRules ==
  << [tone |-> "Sad",           base |-> 60, range |-> 30],
     [tone |-> "Anxious",       base |-> 70, range |-> 25],
     [tone |-> "Worried",       base |-> 65, range |-> 30],
     [tone |-> "Angry",         base |-> 80, range |-> 20],
     [tone |-> "Frustrated",    base |-> 70, range |-> 25],
     [tone |-> "Melancholic",   base |-> 65, range |-> 25],
     [tone |-> "Excited",       base |-> 85, range |-> 15],
     [tone |-> "Joyful",        base |-> 80, range |-> 20],
     [tone |-> "Hopeful",       base |-> 75, range |-> 20],
     [tone |-> "Nostalgic",     base |-> 70, range |-> 25],
     [tone |-> "Peaceful",      base |-> 65, range |-> 25],
     [tone |-> "Grateful",      base |-> 72, range |-> 23],
     [tone |-> "Confused",      base |-> 60, range |-> 30],
     [tone |-> "Determined",    base |-> 75, range |-> 20],
     [tone |-> "Contemplative", base |-> 68, range |-> 25],
     [tone |-> "Lonely",        base |-> 65, range |-> 30] >>

\* the predicate of each branch; a comparison with NaN is false
Gate(tone, f) ==
  LET n == NormalizeGated(f)
      a == n.amplitude
      v == n.variance
      t == n.tempo
      p == n.pitchVar
      s == n.stability
      sil == f.silenceRatio
  IN CASE tone = "Sad" ->
            XLt(a, Lit(40)) /\ XLt(t, Lit(30)) /\ XLt(s, Lit(40)) /\ XGt(sil, Lit(40))
       [] tone = "Anxious" ->
            XGt(v, Lit(60)) /\ XLt(s, Lit(30)) /\ XGt(t, Lit(60))
            /\ XGt(f.breathingPatterns, Lit(60))
       [] tone = "Worried" ->
            XGt(a, Lit(30)) /\ XLt(a, Lit(60)) /\ XGt(p, Lit(50)) /\ XLt(s, Lit(50))
       [] tone = "Angry" ->
            XGt(a, Lit(70)) /\ XGt(v, Lit(70)) /\ XGt(t, Lit(70))
            /\ XGt(n.lowFreq, Lit(60))
       [] tone = "Frustrated" ->
            XGt(v, Lit(60)) /\ XGt(a, Lit(40)) /\ XLt(a, Lit(70)) /\ XLt(s, Lit(40))
       [] tone = "Melancholic" ->
            XLt(a, Lit(50)) /\ XLt(t, Lit(40)) /\ XGt(s, Lit(60)) /\ XGt(sil, Lit(30))
       [] tone = "Excited" ->
            XGt(a, Lit(60)) /\ XGt(t, Lit(70)) /\ XGt(v, Lit(60)) /\ XGt(p, Lit(60))
       [] tone = "Joyful" ->
            XGt(a, Lit(60)) /\ XGt(t, Lit(50)) /\ XGt(s, Lit(50))
            /\ XGt(n.highFreq, Lit(50))
       [] tone = "Hopeful" ->
            XGt(a, Lit(50)) /\ XGt(p, Lit(50)) /\ XGt(s, Lit(60))
            /\ XGt(n.centroid, Lit(50))
       [] tone = "Nostalgic" ->
            XGt(a, Lit(30)) /\ XLt(a, Lit(60)) /\ XLt(t, Lit(50)) /\ XGt(s, Lit(50))
       [] tone = "Peaceful" ->
            XLt(a, Lit(60)) /\ XLt(t, Lit(40)) /\ XGt(s, Lit(70)) /\ XLt(v, Lit(30))
       [] tone = "Grateful" ->
            XGt(a, Lit(40)) /\ XLt(a, Lit(70)) /\ XGt(s, Lit(60)) /\ XLt(v, Lit(40))
       [] tone = "Confused" ->
            XGt(v, Lit(50)) /\ XLt(s, Lit(40)) /\ XGt(sil, Lit(30)) /\ XGt(p, Lit(40))
       [] tone = "Determined" ->
            XGt(a, Lit(50)) /\ XGt(s, Lit(70)) /\ XLt(v, Lit(40)) /\ XGt(n.zcr, Lit(50))
       [] tone = "Contemplative" ->
            XGt(a, Lit(30)) /\ XLt(a, Lit(60)) /\ XGt(sil, Lit(25)) /\ XGt(s, Lit(60))
       [] tone = "Lonely" ->
            XLt(a, Lit(40)) /\ XLt(t, Lit(30)) /\ XGt(sil, Lit(40))
            /\ XGt(f.duration, 20 * Scale)

\* Math.min(Math.max(intensity, 0.5), 1.0)
ClampIntensity(x) == XMin(XMax(x, HalfIntensity), IntensityUnit)

\* base + Math.random() * range, with Math.random() in tenths
GatedIntensity(rule, random) ==
  (rule.base * 10 + random * rule.range) * (IntensityUnit \div 1000)

RECURSIVE CascadeFrom(_, _, _)
CascadeFrom(f, k, random) ==
  IF k > Len(GatedRules)
  THEN [tone |-> Neutral, intensity |-> ClampIntensity(HalfIntensity)]
  ELSE IF Gate(GatedRules[k].tone, f)
       THEN [ tone |-> GatedRules[k].tone,
              intensity |-> ClampIntensity(GatedIntensity(GatedRules[k], random)) ]
       ELSE CascadeFrom(f, k + 1, random)

\* the chain written as separate if statements: the last rule that holds wins
determineEmotionGatedMutLastMatch(f, random) ==
  LET hits == {k \in 1..Len(GatedRules) : Gate(GatedRules[k].tone, f)}
  IN IF hits = {} THEN CascadeFrom(f, Len(GatedRules) + 1, random)
     ELSE LET k == CHOOSE k \in hits : \A j \in hits : j <= k
          IN [ tone |-> GatedRules[k].tone,
               intensity |-> ClampIntensity(GatedIntensity(GatedRules[k], random)) ]

determineEmotionGated(f, random) == CascadeFrom(f, 1, random)

(***************************************************************************)
(* The decoded channel data.  A Float32Array is held run-length encoded: a *)
(* sequence of runs [v, from, to], the samples with index in [from, to)    *)
(* all having the value v, which stands for the amplitude v / SampleDen.   *)
(* The runs are non-empty and adjacent, the first starts at 0.  Every sum  *)
(* a feature takes over an index range is the sum over the runs of         *)
(* (samples of the run inside the range) * (the summand at that value).    *)
(***************************************************************************)
SampleDen == 250

\* a sample value in units of 1/Scale
SampleScaled(v) == v * (Scale \div SampleDen)

\* a sum of squared sample values in units of 1/Scale
SqScaled(x) == (x * (Scale \div 2500)) \div ((SampleDen * SampleDen) \div 2500)

Abs(x) == IF x < 0 THEN 0 - x ELSE x

Min2(a, b) == IF a < b THEN a ELSE b

Max2(a, b) == IF a > b THEN a ELSE b

\* floor(a * b / c) for a, b >= 0, c > 0, without an intermediate product a * b
MulDiv(a, b, c) == (a \div c) * b + ((a % c) * b) \div c

\* floor(a * Scale / c) for a >= 0, c > 0, by long division in two steps of 100
ScaleDiv(a, c) ==
  LET q0 == a \div c
      r0 == a % c
      q1 == q0 * 100 + (r0 * 100) \div c
      r1 == (r0 * 100) % c
  IN q1 * 100 + (r1 * 100) \div c

\* n / d, the quotient of two counts, in units of 1/Scale
XRatio(n, d) ==
  IF d = 0 THEN (IF n = 0 THEN NaN ELSE IF n > 0 THEN PosInf ELSE NegInf)
  ELSE ScaleDiv(n, d)

\* x / d for x in units of 1/Scale and a count d
XQuot(x, d) ==
  IF d = 0 THEN (IF x = 0 THEN NaN ELSE IF x > 0 THEN PosInf ELSE NegInf)
  ELSE x \div d

RECURSIVE SqrtBetween(_, _, _)
SqrtBetween(x, lo, hi) ==
  IF lo >= hi THEN lo
  ELSE LET mid == (lo + hi + 1) \div 2
       IN IF mid * mid <= x THEN SqrtBetween(x, mid, hi)
          ELSE SqrtBetween(x, lo, mid - 1)

\* floor(Math.sqrt(x)) for 0 <= x < 2^31
ISqrt(x) == SqrtBetween(x, 0, 46340)

\* channelData.length
Length(cd) == IF cd = <<>> THEN 0 ELSE cd[Len(cd)].to

\* how many samples of run k have an index in [a, b)
Overlap(cd, k, a, b) ==
  LET lo == Max2(cd[k].from, a)
      hi == Min2(cd[k].to, b)
  IN IF hi > lo THEN hi - lo ELSE 0

\* sum of Math.abs(channelData[i]) for i in [a, b), in sample units
SumAbs(cd, a, b) == SumSeq([k \in 1..Len(cd) |-> Overlap(cd, k, a, b) * Abs(cd[k].v)])

\* sum of channelData[i] * channelData[i] for i in [a, b), in squared sample units
SumSq(cd, a, b) == SumSeq([k \in 1..Len(cd) |-> Overlap(cd, k, a, b) * cd[k].v * cd[k].v])

\* how many i in [a, b) have Math.abs(channelData[i]) < num / den
CountBelow(cd, a, b, num, den) ==
  SumSeq([k \in 1..Len(cd) |->
            IF Abs(cd[k].v) * den < num * SampleDen THEN Overlap(cd, k, a, b) ELSE 0])

\* how often the body of
\*   for (let i = 0; i < length - windowSize; i += windowSize)
\* runs: once for each multiple of windowSize below length - windowSize
NumWindows(length, windowSize) ==
  IF length > windowSize THEN (length - 1) \div windowSize ELSE 0

\* the values i takes in that loop
WindowStarts(cd, windowSize) ==
  [k \in 1..NumWindows(Length(cd), windowSize) |-> (k - 1) * windowSize]

\* xs.reduce((a, b) => a + b, 0) / xs.length, for a non-empty xs
Mean(xs) ==
  LET n == Len(xs) IN
  SumSeq([i \in 1..n |-> xs[i] \div n]) + SumSeq([i \in 1..n |-> xs[i] % n]) \div n

\* xs.reduce((sum, x) => sum + Math.pow(x - mean, 2), 0) / xs.length
Variance(xs) ==
  LET n == Len(xs)
      m == Mean(xs)
  IN SumSeq([i \in 1..n |-> ((xs[i] - m) * (xs[i] - m)) \div n])

calculateAverageAmplitude(cd) ==
  XQuot(SampleScaled(SumAbs(cd, 0, Length(cd))), Length(cd))

calculateEnergyVariance(cd) ==
  LET windowSize == 1024
      starts == WindowStarts(cd, windowSize)
      energies == [k \in 1..Len(starts) |->
                     SqScaled(SumSq(cd, starts[k], starts[k] + windowSize)) \div windowSize]
  IN IF Len(energies) < 2 THEN 0 ELSE ISqrt(Variance(energies))

\* (channelData[i] >= 0) !== (channelData[i - 1] >= 0) can hold only where two runs meet
calculateZeroCrossingRate(cd) ==
  LET crossings == Cardinality({k \in 2..Len(cd) : (cd[k].v >= 0) # (cd[k - 1].v >= 0)})
  IN XRatio(crossings, Length(cd))

\* sum of i for i in [a, b)
IndexSum(a, b) == IF b > a THEN ((a + b - 1) * (b - a)) \div 2 ELSE 0

\* frequency = i * sampleRate / (2 * fftSize); the centroid in Hz, in units of 1/Scale
calculateSpectralCentroid(cd, sampleRate) ==
  LET fftSize == 2048
      top == Min2(fftSize, Length(cd))
      indexWeighted == SumSeq([k \in 1..Len(cd) |->
                         IF Overlap(cd, k, 0, top) = 0 THEN 0
                         ELSE Abs(cd[k].v) * IndexSum(cd[k].from, Min2(cd[k].to, top))])
      magnitudeSum == SumAbs(cd, 0, top)
      \* weightedSum / magnitudeSum with the factor sampleRate / (2 * fftSize) taken out
      meanIndex == ScaleDiv(indexWeighted, magnitudeSum)
  IN IF magnitudeSum > 0 THEN MulDiv(meanIndex, sampleRate, 2 * fftSize) ELSE 0

estimateTempo(cd, sampleRate) ==
  LET windowSize == sampleRate \div 10
      starts == WindowStarts(cd, windowSize)
      energies == [k \in 1..Len(starts) |-> SumSq(cd, starts[k], starts[k] + windowSize)]
      n == Len(energies)
      \* twice the threshold, mean * 1.5
      threshold2 == IF n = 0 THEN NaN ELSE 3 * Mean(energies)
      peaks == Cardinality({i \in 2..(n - 1) :
                              /\ XGt(2 * energies[i], threshold2)
                              /\ energies[i] > energies[i - 1]
                              /\ energies[i] > energies[i + 1]})
  IN \* peaks / (length / sampleRate / 60)
     XRatio(peaks * 60 * sampleRate, Length(cd))

\* sum of window[i] * window[i + period] for i in [0, windowSize - period)
Correlation(cd, base, windowSize, period) ==
  SumSeq([a \in 1..Len(cd) |->
    SumSeq([b \in 1..Len(cd) |->
      LET lo == Max2(Max2(cd[a].from, cd[b].from - period), base)
          hi == Min2(Min2(cd[a].to, cd[b].to - period), base + windowSize - period)
      IN IF hi > lo THEN (hi - lo) * cd[a].v * cd[b].v ELSE 0])])

\* the loop
\*   for (period = lo; period <= hi; period++)
\*     if (correlation > maxCorrelation) { maxCorrelation = correlation; bestPeriod = period }
\* keeps the first period with the largest correlation; the range is searched by halves
RECURSIVE PitchSearch(_, _, _, _, _)
PitchSearch(cd, base, windowSize, lo, hi) ==
  IF lo = hi
  THEN [period |-> lo, correlation |-> Correlation(cd, base, windowSize, lo)]
  ELSE LET mid == (lo + hi) \div 2
           first == PitchSearch(cd, base, windowSize, lo, mid)
           second == PitchSearch(cd, base, windowSize, mid + 1, hi)
       IN IF second.correlation > first.correlation THEN second ELSE first

\* the pitch of the window channelData.slice(base, base + windowSize), in tenths of a Hz
estimatePitchFromWindow(cd, base, windowSize) ==
  LET \* period runs from 20 while period < window.length / 2
      best == PitchSearch(cd, base, windowSize, 20, (windowSize - 1) \div 2)
      \* maxCorrelation starts at 0: a period is kept only with a positive correlation
      bestPeriod == IF best.correlation > 0 THEN best.period ELSE 0
  IN IF bestPeriod > 0 THEN 441000 \div bestPeriod ELSE 0

\* the elements of xs that are > 0, in order
PositiveOnly(xs) == SelectSeq(xs, LAMBDA x : x > 0)

calculatePitchVariation(cd) ==
  LET windowSize == 1024
      starts == WindowStarts(cd, windowSize)
      pitches == PositiveOnly([k \in 1..Len(starts) |->
                                 estimatePitchFromWindow(cd, starts[k], windowSize)])
  IN IF Len(pitches) < 2 THEN 0
     ELSE XRatio(ISqrt(Variance(pitches)), Mean(pitches))

calculateSilenceRatio(cd) ==
  XRatio(CountBelow(cd, 0, Length(cd), 1, 100), Length(cd))

calculateLowFrequencyEnergy(cd) ==
  LET windowSize == 512
  IN SqScaled(SumSq(cd, 0, Min2(windowSize, Length(cd)))) \div windowSize

calculateHighFrequencyEnergy(cd) ==
  LET startIndex == (Length(cd) * 6) \div 10
      endIndex == Min2(startIndex + 512, Length(cd))
  IN XQuot(SqScaled(SumSq(cd, startIndex, endIndex)), endIndex - startIndex)

\* 1 / (1 + Math.sqrt(variance) * 10) of the window starting at base
WindowStability(cd, base, windowSize) ==
  LET meanAmplitude == SampleScaled(SumAbs(cd, base, base + windowSize)) \div windowSize
      variance == SumSeq([k \in 1..Len(cd) |->
                    LET d == SampleScaled(Abs(cd[k].v)) - meanAmplitude
                    IN MulDiv(d * d, Overlap(cd, k, base, base + windowSize), windowSize)])
  IN (Scale * Scale) \div (Scale + ISqrt(variance) * 10)

calculateVoiceStability(cd) ==
  LET windowSize == 2048
      starts == WindowStarts(cd, windowSize)
      stabilities == [k \in 1..Len(starts) |-> WindowStability(cd, starts[k], windowSize)]
  IN IF Len(stabilities) > 0 THEN Mean(stabilities) ELSE 0

\* the sum of the squared deviations not divided by breathingIndicators.length
analyzeBreathingPatternsMutSum(cd, sampleRate) ==
  LET windowSize == sampleRate \div 2
      starts == WindowStarts(cd, windowSize)
      breathingIndicators ==
        [k \in 1..Len(starts) |->
           ScaleDiv(CountBelow(cd, starts[k], starts[k] + windowSize, 5, 1000), windowSize)]
  IN IF Len(breathingIndicators) < 2 THEN 0
     ELSE ISqrt(Variance(breathingIndicators) * Len(breathingIndicators))

analyzeBreathingPatterns(cd, sampleRate) ==
  LET windowSize == sampleRate \div 2
      starts == WindowStarts(cd, windowSize)
      breathingIndicators ==
        [k \in 1..Len(starts) |->
           ScaleDiv(CountBelow(cd, starts[k], starts[k] + windowSize, 5, 1000), windowSize)]
  IN IF Len(breathingIndicators) < 2 THEN 0 ELSE ISqrt(Variance(breathingIndicators))

\* the features object literal of extractAudioFeatures; duration is audioBuffer.duration
extractAudioFeatures(cd, sampleRate) ==
  [ duration            |-> ScaleDiv(Length(cd), sampleRate),
    averageAmplitude    |-> calculateAverageAmplitude(cd),
    energyVariance      |-> calculateEnergyVariance(cd),
    zeroCrossingRate    |-> calculateZeroCrossingRate(cd),
    spectralCentroid    |-> calculateSpectralCentroid(cd, sampleRate),
    tempo               |-> estimateTempo(cd, sampleRate),
    pitchVariation      |-> calculatePitchVariation(cd),
    silenceRatio        |-> calculateSilenceRatio(cd),
    lowFrequencyEnergy  |-> calculateLowFrequencyEnergy(cd),
    highFrequencyEnergy |-> calculateHighFrequencyEnergy(cd),
    voiceStability      |-> calculateVoiceStability(cd),
    breathingPatterns   |-> analyzeBreathingPatterns(cd, sampleRate) ]

(***************************************************************************)
(* Inputs of the model.                                                    *)
(***************************************************************************)
\* longest buffer that is enumerated sample by sample
MaxShortLen == 2

\* how many fields of a feature vector are set to an extreme value at once
MaxExtremeFields == 1

\* sample values: -0.9, 0, 0.004 (below both silence thresholds), 0.02, 0.9
SampleValues == {-225, 0, 1, 5, 225}

\* the sample values of the buffers enumerated sample by sample: -0.9, 0, 0.02
ShortValues == {-225, 0, 5}

\* audioBuffer.sampleRate
SampleRates == {8000, 44100}

\* n samples of value v
Run(v, n) == [v |-> v, n |-> n]

\* merges equal neighbours, so that a buffer has one encoding
RECURSIVE Canonical(_)
Canonical(rs) ==
  IF Len(rs) < 2 THEN rs
  ELSE IF rs[1].v = rs[2].v
       THEN Canonical(<<Run(rs[1].v, rs[1].n + rs[2].n)>> \o Tail(Tail(rs)))
       ELSE <<rs[1]>> \o Canonical(Tail(rs))

RECURSIVE Placed(_, _)
Placed(rs, from) ==
  IF rs = <<>> THEN <<>>
  ELSE <<[v |-> rs[1].v, from |-> from, to |-> from + rs[1].n]>>
       \o Placed(Tail(rs), from + rs[1].n)

\* the channel data that consists of the runs rs
Samples(rs) == Placed(Canonical(rs), 0)

\* every buffer of at most MaxShortLen samples with values in ShortValues
ShortBuffers ==
  UNION {{Samples([i \in 1..len |-> Run(s[i], 1)]) : s \in [1..len -> ShortValues]}
         : len \in 0..MaxShortLen}

\* one run, of a length around the window sizes 512, 1024, 2048 and sampleRate / 10
OneRunBuffers ==
  {Samples(<<Run(v, n)>>) : v \in SampleValues, n \in {511, 512, 800, 1025, 2049, 4097}}

\* two runs
TwoRunBuffers ==
  {Samples(<<Run(v, n), Run(w, m)>>) :
     v \in SampleValues, n \in {511, 2049}, w \in {-225, 0}, m \in {1, 1025}}

\* buffers with energy peaks and pauses: loud and quiet stretches of 100 ms to 1 s at 8 kHz
PatternBuffers ==
  { Samples(<<Run(1, 800), Run(225, 800), Run(1, 900)>>),
    Samples(<<Run(5, 900), Run(225, 700), Run(5, 800), Run(-225, 800), Run(5, 900)>>),
    Samples(<<Run(0, 4000), Run(5, 4000), Run(1, 2000), Run(5, 2100)>>),
    Samples(<<Run(5, 1600), Run(225, 800), Run(0, 800), Run(5, 1000)>>),
    Samples(<<Run(225, 2048), Run(-225, 2048), Run(5, 1)>>),
    Samples(<<Run(225, 1024), Run(0, 1024)>>),
    Samples(<<Run(0, 4000), Run(225, 4001)>>),
    Samples(<<Run(1, 800), Run(5, 800), Run(1, 800), Run(5, 800), Run(1, 800), Run(5, 800),
              Run(1, 800)>>) }

Buffers == ShortBuffers \cup OneRunBuffers \cup TwoRunBuffers \cup PatternBuffers

\* 0.8 + Math.random() * 0.4 in tenths: both ends of the range and its middle
JitterDraws == {8, 10, 12}

\* the two ends of the range
JitterEnds == {8, 12}

\* the sixteen draws of one classification: all equal, or one candidate at another value
JitterVectors ==
  {[e \in ToneSet |-> IF e = b THEN jb ELSE j0] :
     b \in ToneSet, j0 \in JitterEnds, jb \in JitterEnds}

\* Math.random() in tenths
RandomDraws == {0, 5, 10}

FeatureFields ==
  { "duration", "averageAmplitude", "energyVariance", "zeroCrossingRate",
    "spectralCentroid", "tempo", "pitchVariation", "silenceRatio",
    "lowFrequencyEnergy", "highFrequencyEnergy", "voiceStability",
    "breathingPatterns" }

\* not a number and the infinities
ExtremeValues == {NaN, PosInf, NegInf}

FV(d, a, ev, z, c, t, p, s, lo, hi, st, b) ==
  [ duration |-> d, averageAmplitude |-> a, energyVariance |-> ev,
    zeroCrossingRate |-> z, spectralCentroid |-> c, tempo |-> t,
    pitchVariation |-> p, silenceRatio |-> s, lowFrequencyEnergy |-> lo,
    highFrequencyEnergy |-> hi, voiceStability |-> st, breathingPatterns |-> b ]

\* all zero, moderate speech, loud and fast, one no buffer yields (negative and very
\* large entries), one whose only scores that are numbers are zero (Excited, Angry),
\* and a fast one whose silenceRatio is -1
BaseVectors ==
  { FV(0, 0, 0, 0, 0, 0, 0, 0, 0, 0, 0, 0),
    FV(12 * Scale, 250, 200, 300, 900 * Scale, 45 * Scale, 900, 3500, 400, 300, 2500, 1500),
    FV(5 * Scale, 9000, 3000, 2000, 11000 * Scale, 240 * Scale, 4000, 0, 8100, 8100, 900, 4000),
    FV(0 - Scale, 10 * Scale, 0 - Scale, 10 * Scale, 0 - Scale, 10 * Scale, 0 - Scale,
       10 * Scale, 0 - Scale, 10 * Scale, 0 - Scale, 10 * Scale),
    FV(0, 0, 0, 0, 0, 0, 0, NaN, 0, 0, NaN, 0),
    FV(0, 0, 0, 0, 0, 100 * Scale, 0, 0 - Scale, 0, 0, 0, 0) }

RECURSIVE WithExtremes(_, _)
WithExtremes(vs, k) ==
  IF k = 0 THEN vs
  ELSE WithExtremes(vs \cup {[f EXCEPT ![fld] = x] :
                               f \in vs, fld \in FeatureFields, x \in ExtremeValues},
                    k - 1)

FeatureVectors == WithExtremes(BaseVectors, MaxExtremeFields)

(***************************************************************************)
(* State.  One EmotionAnalysis run: analyzeEmotion awaits                  *)
(* extractAudioFeatures, then calls determineEmotionFromFeatures.          *)
(***************************************************************************)
VARIABLES
  build,          \* which determineEmotionFromFeatures the build has: "weighted" or "gated"
  pc,             \* where analyzeEmotion is: "idle", "extracted", "done"
  channelData,    \* audioBuffer.getChannelData(0)
  sampleRate,     \* audioBuffer.sampleRate
  features,       \* the AudioFeatures that extractAudioFeatures resolved with
  jitter,         \* the jitter factor each score function drew, in tenths
  randomFactor,   \* the last Math.random-derived factor of the classification, in tenths
  emotionScores,  \* the emotionScores object
  emotion,        \* the { tone, intensity } that determineEmotionFromFeatures returned
  audioBlob,      \* AudioProvider.audioBlob: 0 for null, else the number of a recording
  pageEmotion,    \* RecordPage.emotion: NoEmotion for null
  emotionSource,  \* the analysis run whose onAnalysisComplete set pageEmotion, 0 for none
  mounted,        \* the mounted EmotionAnalysis instance (the number of its run), 0 for none
  isAnalyzing,    \* EmotionAnalysis.isAnalyzing of the mounted instance
  error,          \* EmotionAnalysis.error of the mounted instance is not null
  runs,           \* the analyzeEmotion invocations, in the order they started
  now,            \* Date.now(), in ticks of 1 / TicksPerSecond second
  contracts,      \* the unlock_timestamp each application id holds on chain
  given,          \* the emotion handed to each addMemory call
  uploadRequest,  \* emotion in the body of the last POST to upload-memory, as parsed
  localRefs,      \* localStorage chronolock_memory_refs, as JSON.parse returns it
  memories,       \* MemoryProvider.memories
  retrieval,      \* the retrieveVoiceMemory call in progress or last ended
  reportedUnlocked,  \* per memory, isMemoryUnlocked has returned true
  lastReport,     \* per memory, what isMemoryUnlocked returned last
  particles,      \* the particles EmotionVisualizer drew last, -1 for none
  isLoading,      \* MemoryProvider.isLoading
  additions       \* one record for each addMemory call, in the order of the calls

engineVars == <<build, pc, channelData, sampleRate, features, jitter, randomFactor,
                emotionScores, emotion>>

pageVars == <<audioBlob, pageEmotion, emotionSource, mounted, isAnalyzing, error, runs>>

storageVars == <<now, contracts, given, uploadRequest, localRefs, memories,
                 retrieval, reportedUnlocked, lastReport, particles,
                 isLoading, additions>>

vars == <<engineVars, pageVars, storageVars>>

NoFeatures == FV(0, 0, 0, 0, 0, 0, 0, 0, 0, 0, 0, 0)

NoJitter == [e \in ToneSet |-> 0]

NoEmotion == [tone |-> "", intensity |-> 0]

\* no memory stored, no retrieval made
NoRetrieval ==
  [memory |-> 0, pc |-> "idle", error |-> "", checked |-> "",
   fetched |-> "", returned |-> ""]

InitStorage ==
  /\ now = 0
  /\ contracts = <<>>
  /\ given = <<>>
  /\ uploadRequest = NoEmotion
  /\ localRefs = <<>>
  /\ memories = <<>>
  /\ retrieval = NoRetrieval
  /\ reportedUnlocked = <<>>
  /\ lastReport = <<>>
  /\ particles = -1
  /\ isLoading = FALSE
  /\ additions = <<>>

Init ==
  /\ build \in {"weighted", "gated"}
  /\ pc = "idle"
  /\ channelData = <<>>
  /\ sampleRate = 44100
  /\ features = NoFeatures
  /\ jitter = NoJitter
  /\ randomFactor = 0
  /\ emotionScores = NoJitter
  /\ emotion = NoEmotion
  /\ audioBlob = 0
  /\ pageEmotion = NoEmotion
  /\ emotionSource = 0
  /\ mounted = 0
  /\ isAnalyzing = FALSE
  /\ error = FALSE
  /\ runs = <<>>
  /\ InitStorage

\* the FileReader onload handler: decode, then compute every feature
ExtractAudioFeatures ==
  /\ pc = "idle"
  /\ \E cd \in Buffers, sr \in SampleRates :
       /\ channelData' = cd
       /\ sampleRate' = sr
       /\ features' = extractAudioFeatures(cd, sr)
  /\ pc' = "extracted"
  /\ UNCHANGED <<build, jitter, randomFactor, emotionScores, emotion>>
  /\ UNCHANGED <<pageVars, storageVars>>

\* determineEmotionFromFeatures of the weighted-score build
DetermineEmotionWeighted ==
  /\ pc = "extracted"
  /\ build = "weighted"
  /\ \E jit \in JitterVectors, rf \in JitterDraws :
       /\ jitter' = jit
       /\ randomFactor' = rf
       /\ emotionScores' = EmotionScores(features, jit)
       /\ emotion' = determineEmotionFromFeatures(features, jit, rf)
  /\ pc' = "done"
  /\ UNCHANGED <<build, channelData, sampleRate, features>>
  /\ UNCHANGED <<pageVars, storageVars>>

\* determineEmotionFromFeatures of the gated-cascade build
DetermineEmotionGated ==
  /\ pc = "extracted"
  /\ build = "gated"
  /\ \E r \in RandomDraws :
       /\ randomFactor' = r
       /\ emotion' = determineEmotionGated(features, r)
  /\ pc' = "done"
  /\ UNCHANGED <<build, channelData, sampleRate, features, jitter, emotionScores>>
  /\ UNCHANGED <<pageVars, storageVars>>

\* the audioBlob prop changes: the effect runs analyzeEmotion for the new blob
NewRecording ==
  /\ pc = "done"
  /\ pc' = "idle"
  /\ channelData' = <<>>
  /\ sampleRate' = 44100
  /\ features' = NoFeatures
  /\ jitter' = NoJitter
  /\ randomFactor' = 0
  /\ emotionScores' = NoJitter
  /\ emotion' = NoEmotion
  /\ UNCHANGED build
  /\ UNCHANGED <<pageVars, storageVars>>

Next ==
  \/ ExtractAudioFeatures
  \/ DetermineEmotionWeighted
  \/ DetermineEmotionGated
  \/ NewRecording

Spec == Init /\ [][Next]_vars

(***************************************************************************)
(* determineEmotionFromFeatures as a function of an arbitrary feature      *)
(* vector: the vector is drawn at the start, the classifier is applied.    *)
(***************************************************************************)
InitFV ==
  /\ build \in {"weighted", "gated"}
  /\ pc = "extracted"
  /\ channelData = <<>>
  /\ sampleRate = 44100
  /\ features \in FeatureVectors
  /\ jitter = NoJitter
  /\ randomFactor = 0
  /\ emotionScores = NoJitter
  /\ emotion = NoEmotion
  /\ audioBlob = 0
  /\ pageEmotion = NoEmotion
  /\ emotionSource = 0
  /\ mounted = 0
  /\ isAnalyzing = FALSE
  /\ error = FALSE
  /\ runs = <<>>
  /\ InitStorage

NextFV ==
  \/ DetermineEmotionWeighted
  \/ DetermineEmotionGated

SpecFV == InitFV /\ [][NextFV]_vars

(***************************************************************************)
(* The scenario recordings: a constant buffer at 0.9 (5 seconds at         *)
(* 44100 Hz) and near-silent buffers (10 seconds at 8000 Hz, every sample  *)
(* below 0.01 in absolute value), analysed by the same pipeline.           *)
(***************************************************************************)
\* 5 seconds at 44100 Hz, every sample 0.9
ScenarioA == [cd |-> Samples(<<Run(225, 5 * 44100)>>), sampleRate |-> 44100]

\* 10 seconds at 8000 Hz: every sample 0, every sample 0.004, and half of each
ScenariosB ==
  { [cd |-> Samples(<<Run(0, 10 * 8000)>>), sampleRate |-> 8000],
    [cd |-> Samples(<<Run(1, 10 * 8000)>>), sampleRate |-> 8000],
    [cd |-> Samples(<<Run(1, 5 * 8000), Run(0, 5 * 8000)>>), sampleRate |-> 8000] }

Scenarios == {ScenarioA} \cup ScenariosB

ExtractScenario ==
  /\ pc = "idle"
  /\ \E sc \in Scenarios :
       /\ channelData' = sc.cd
       /\ sampleRate' = sc.sampleRate
       /\ features' = extractAudioFeatures(sc.cd, sc.sampleRate)
  /\ pc' = "extracted"
  /\ UNCHANGED <<build, jitter, randomFactor, emotionScores, emotion>>
  /\ UNCHANGED <<pageVars, storageVars>>

NextScenario ==
  \/ ExtractScenario
  \/ DetermineEmotionWeighted
  \/ DetermineEmotionGated

SpecScenario == Init /\ [][NextScenario]_vars

(***************************************************************************)
(* The record page.  RecordPage holds emotion and renders EmotionAnalysis  *)
(* while audioBlob is set and emotion is null; every mount runs the effect *)
(* once, and the effect starts one analyzeEmotion invocation.  An          *)
(* invocation is a closure: it keeps its own blob, features and draws, and *)
(* writes isAnalyzing and error of the instance that started it (a state   *)
(* setter of an unmounted instance does nothing) and the page's emotion    *)
(* through onAnalysisComplete, which is the page's setEmotion.             *)
(***************************************************************************)
\* the analyzeEmotion invocations one page visit may start
MaxRuns == 2

\* what the recorder may hand over: a single loud sample, a stretch of silence
Recordings ==
  << [cd |-> Samples(<<Run(225, 1)>>), sampleRate |-> 44100],
     [cd |-> Samples(<<Run(0, 600)>>), sampleRate |-> 8000] >>

\* the features of each recording, analysed on its own
RecordingFeatures ==
  [b \in 1..Len(Recordings) |->
     extractAudioFeatures(Recordings[b].cd, Recordings[b].sampleRate)]

NoDraws == [jitter |-> NoJitter, random |-> 0]

\* the Math.random() values one determineEmotionFromFeatures call may draw
Draws(b) ==
  IF b = "gated"
    THEN {[jitter |-> NoJitter, random |-> r] : r \in {0, 10}}
    ELSE {[jitter |-> [e \in ToneSet |-> j], random |-> j] : j \in JitterEnds}

\* determineEmotionFromFeatures of the build, on the values it drew
Classify(b, f, d) ==
  IF b = "gated"
    THEN determineEmotionGated(f, d.random)
    ELSE determineEmotionFromFeatures(f, d.jitter, d.random)

InFlight(run) == run.pc \in {"reading", "waiting"}

Ended(run) == run.pc \in {"done", "failed"}

NewRun(b) ==
  [blob |-> b, pc |-> "reading", features |-> NoFeatures, draws |-> NoDraws,
   result |-> NoEmotion, delivered |-> 0, errorSet |-> FALSE,
   abandoned |-> FALSE, cleared |-> FALSE,
   overlapped |-> \E q \in 1..Len(runs) : InFlight(runs[q])]

\* const audioFeatures of the invocation r
RunFeaturesMutShared(rs, r) == rs[Len(rs)].features

RunFeatures(rs, r) == rs[r].features

\* setIsAnalyzing(false) called by the invocation of instance inst
FinallyMutSkipped(inst) == isAnalyzing

Finally(inst) == IF inst = mounted THEN FALSE ELSE isAnalyzing

\* setAudioBlob(null): in-flight invocations lose their recording, and the recording
\* of every invocation so far is no longer the page's audioBlob
Abandon(rs) ==
  [r \in 1..Len(rs) |->
     IF InFlight(rs[r]) THEN [rs[r] EXCEPT !.abandoned = TRUE, !.cleared = TRUE]
     ELSE [rs[r] EXCEPT !.cleared = TRUE]]

\* mediaRecorder.onstop: setAudioBlob(blob); the page renders EmotionAnalysis
\* if emotion is null, and the effect calls analyzeEmotion
StopRecording ==
  /\ audioBlob = 0
  /\ pageEmotion = NoEmotion => Len(runs) < MaxRuns
  /\ \E b \in 1..Len(Recordings) :
       /\ audioBlob' = b
       /\ IF pageEmotion = NoEmotion
            THEN /\ runs' = Append(runs, NewRun(b))
                 /\ mounted' = Len(runs) + 1
                 /\ isAnalyzing' = TRUE
                 /\ error' = FALSE
            ELSE UNCHANGED <<runs, mounted, isAnalyzing, error>>
  /\ UNCHANGED <<pageEmotion, emotionSource>>
  /\ UNCHANGED <<engineVars, storageVars>>

\* the "Clear & Start Over" button: setAudioBlob(null) unmounts EmotionAnalysis
ClearRecording ==
  /\ audioBlob # 0
  /\ audioBlob' = 0
  /\ mounted' = 0
  /\ isAnalyzing' = FALSE
  /\ error' = FALSE
  /\ runs' = Abandon(runs)
  /\ UNCHANGED <<pageEmotion, emotionSource>>
  /\ UNCHANGED <<engineVars, storageVars>>

\* handleUpload: addMemory, then clearRecording() and setEmotion(null)
HandleUpload ==
  /\ audioBlob # 0
  /\ pageEmotion # NoEmotion
  /\ audioBlob' = 0
  /\ pageEmotion' = NoEmotion
  /\ emotionSource' = 0
  /\ mounted' = 0
  /\ isAnalyzing' = FALSE
  /\ error' = FALSE
  /\ runs' = Abandon(runs)
  /\ UNCHANGED <<engineVars, storageVars>>

\* await extractAudioFeatures(audioBlob) resolves
ReadSucceeds(r) ==
  /\ runs[r].pc = "reading"
  /\ runs' = [runs EXCEPT ![r].pc = "waiting",
                          ![r].features =
                             extractAudioFeatures(Recordings[runs[r].blob].cd,
                                                  Recordings[runs[r].blob].sampleRate)]
  /\ UNCHANGED <<audioBlob, pageEmotion, emotionSource, mounted, isAnalyzing, error>>
  /\ UNCHANGED <<engineVars, storageVars>>

\* await extractAudioFeatures(audioBlob) rejects: the catch block, then finally
ReadFails(r) ==
  /\ runs[r].pc = "reading"
  /\ runs' = [runs EXCEPT ![r].pc = "failed", ![r].errorSet = TRUE]
  /\ error' = IF r = mounted THEN TRUE ELSE error
  /\ isAnalyzing' = Finally(r)
  /\ UNCHANGED <<audioBlob, pageEmotion, emotionSource, mounted>>
  /\ UNCHANGED <<engineVars, storageVars>>

\* the 2500 ms timer fires: classify, onAnalysisComplete(emotion), then finally;
\* the page's emotion is no longer null, so it no longer renders EmotionAnalysis
TimeoutFires(r) ==
  /\ runs[r].pc = "waiting"
  /\ \E d \in Draws(build) :
       LET result == Classify(build, RunFeatures(runs, r), d) IN
         /\ runs' = [runs EXCEPT ![r].pc = "done",
                                 ![r].draws = d,
                                 ![r].result = result,
                                 ![r].delivered = @ + 1]
         /\ pageEmotion' = result
  /\ emotionSource' = r
  /\ mounted' = 0
  /\ isAnalyzing' = FALSE
  /\ error' = FALSE
  /\ UNCHANGED audioBlob
  /\ UNCHANGED <<engineVars, storageVars>>

NextUI ==
  \/ StopRecording
  \/ ClearRecording
  \/ HandleUpload
  \/ \E r \in 1..Len(runs) : ReadSucceeds(r)
  \/ \E r \in 1..Len(runs) : ReadFails(r)
  \/ \E r \in 1..Len(runs) : TimeoutFires(r)

SpecUI == Init /\ [][NextUI]_vars

(***************************************************************************)
(* Storage.  addMemory hands the recording and its emotion to              *)
(* storeVoiceMemory, which posts them to the upload-memory function,       *)
(* keeps a local reference in localStorage and returns the ids for the     *)
(* in-memory VoiceMemory.  retrieveVoiceMemory asks the contract of a      *)
(* memory whether it is unlocked before it fetches and decrypts the audio. *)
(* The clock is Date.now(); a contract's unlock_timestamp is in seconds    *)
(* and is written once, when the contract is created.                      *)
(***************************************************************************)
\* the addMemory calls of one session
MaxMemories == 1

\* the last reading of the clock
MaxTime == 5

\* clock ticks in the second that Math.floor(Date.now() / 1000) cuts off
TicksPerSecond == 2

\* the emotions the record page can hold when handleUpload runs
PageEmotions(b) ==
  {Classify(b, RecordingFeatures[k], d) : k \in 1..Len(Recordings), d \in Draws(b)}

\* the unlock dates the date picker can give, in ticks
UnlockDates == {3, 4}

\* Math.floor(new Date(unlockDate).getTime() / 1000)
UnlockTimestamp(d) == d \div TicksPerSecond

\* the application has no unlock_timestamp in its global state
NoTimestamp == -1

\* JSON.stringify writes a number that is not finite as null
JsonNull == NaN + 1

\* JSON.parse(JSON.stringify(x)) of a number
JsonNumberMutMillis(x) ==
  IF IsFinite(x)
    THEN (x \div (IntensityUnit \div 1000)) * (IntensityUnit \div 1000)
    ELSE JsonNull

JsonNumber(x) == IF IsFinite(x) THEN x ELSE JsonNull

\* JSON.parse(JSON.stringify(emotion))
JsonEmotion(e) == [tone |-> e.tone, intensity |-> JsonNumber(e.intensity)]

\* currentTimestamp >= unlockTimestamp
IsUnlockedMutMillis(t, ts) == t >= ts

IsUnlocked(t, ts) == t \div TicksPerSecond >= ts

\* whether the clock reads earlier than the unlock timestamp of memory m
Lock(m, t) ==
  LET ts == contracts[localRefs[m].contractId] IN
    IF ts = NoTimestamp THEN "unknown"
    ELSE IF t < ts * TicksPerSecond THEN "locked" ELSE "open"

\* the memory of an id in MemoryProvider.memories (newest first)
MemoryOf(id) == memories[Len(memories) - id + 1]

\* what the try block of storeVoiceMemory can throw before the request is sent, and
\* once the request is sent: fetch rejects, the response is not ok, or reports no success
EncryptionFailures == {"encryption failed"}

ResponseFailures == {"request failed", "response not ok", "no success"}

Pending(a) == a.pc \in {"encrypting", "requesting"}

\* the call got as far as sending its upload request
Sent(a) == a.pc \in {"requesting", "stored"} \/ a.cause \in ResponseFailures

\* finally { setIsLoading(false) }, reached whether the try block returned or threw
AddMemoryFinallyMutTryOnly(returned) == ~returned

AddMemoryFinally(returned) == FALSE

\* addMemory is called (the page calls it once at a time): setIsLoading(true), then
\* storeVoiceMemory starts to encrypt
AddMemoryCall ==
  /\ Len(given) < MaxMemories
  /\ \A k \in 1..Len(additions) : ~Pending(additions[k])
  /\ \E e \in PageEmotions(build), d \in UnlockDates :
       /\ given' = Append(given, e)
       /\ additions' = Append(additions,
                              [pc |-> "encrypting", emotion |-> e, unlockDate |-> d,
                               response |-> "none", error |-> "", cause |-> ""])
  /\ isLoading' = TRUE
  /\ UNCHANGED <<now, contracts, uploadRequest, localRefs, memories, retrieval,
                 reportedUnlocked, lastReport, particles>>
  /\ UNCHANGED <<engineVars, pageVars>>

\* generateKey, exportKey and encryptAudio resolve; the upload request is sent
EncryptAudio ==
  /\ additions # <<>>
  /\ additions[Len(additions)].pc = "encrypting"
  /\ uploadRequest' = JsonEmotion(additions[Len(additions)].emotion)
  /\ additions' = [additions EXCEPT ![Len(additions)].pc = "requesting"]
  /\ UNCHANGED <<now, contracts, given, localRefs, memories, retrieval,
                 reportedUnlocked, lastReport, particles, isLoading>>
  /\ UNCHANGED <<engineVars, pageVars>>

\* the upload-memory handler succeeds and the response is ok with success = true:
\* storeLocalReference, then addMemory prepends the new memory
AddMemory ==
  /\ additions # <<>>
  /\ additions[Len(additions)].pc = "requesting"
  /\ \E c \in {UnlockTimestamp(additions[Len(additions)].unlockDate), NoTimestamp} :
       LET id == Len(localRefs) + 1
           call == Len(additions)
           e == additions[call].emotion
           d == additions[call].unlockDate
       IN
         /\ contracts' = Append(contracts, c)
         /\ localRefs' = Append(localRefs,
                                [id |-> id, call |-> call, unlockDate |-> d,
                                 contractId |-> id, emotion |-> JsonEmotion(e)])
         /\ memories' = <<[id |-> id, call |-> call, unlockDate |-> d,
                           contractId |-> id, emotion |-> e, isLocked |-> now < d]>> \o memories
         /\ reportedUnlocked' = Append(reportedUnlocked, FALSE)
         /\ lastReport' = Append(lastReport, "none")
  /\ additions' = [additions EXCEPT ![Len(additions)].pc = "stored",
                                    ![Len(additions)].response = "success"]
  /\ isLoading' = AddMemoryFinally(TRUE)
  /\ UNCHANGED <<now, given, uploadRequest, retrieval, particles>>
  /\ UNCHANGED <<engineVars, pageVars>>

\* the try block of storeVoiceMemory throws: the catch block throws
\* 'Storage failed: ...', addMemory rethrows it and runs its finally block
AddMemoryFails ==
  /\ additions # <<>>
  /\ Pending(additions[Len(additions)])
  /\ \E c \in IF additions[Len(additions)].pc = "encrypting"
                 THEN EncryptionFailures ELSE ResponseFailures :
       additions' = [additions EXCEPT
                       ![Len(additions)].pc = "failed",
                       ![Len(additions)].response =
                          IF c \in {"response not ok", "no success"} THEN c ELSE "none",
                       ![Len(additions)].error = "Storage failed",
                       ![Len(additions)].cause = c]
  /\ isLoading' = AddMemoryFinally(FALSE)
  /\ UNCHANGED <<now, contracts, given, uploadRequest, localRefs, memories, retrieval,
                 reportedUnlocked, lastReport, particles>>
  /\ UNCHANGED <<engineVars, pageVars>>

\* time passes
Tick ==
  /\ now < MaxTime
  /\ now' = now + 1
  /\ UNCHANGED <<contracts, given, uploadRequest, localRefs, memories, retrieval,
                 reportedUnlocked, lastReport, particles>>
  /\ UNCHANGED <<isLoading, additions>>
  /\ UNCHANGED <<engineVars, pageVars>>

\* retrieveVoiceMemory(memoryId): getLocalReference, 'Memory not found' if none
RetrieveVoiceMemory(m) ==
  /\ retrieval.pc \in {"idle", "returned", "failed"}
  /\ retrieval' =
       IF m > Len(localRefs)
         THEN [NoRetrieval EXCEPT !.memory = m, !.pc = "failed",
                                  !.error = "Memory not found"]
         ELSE [NoRetrieval EXCEPT !.memory = m, !.pc = "checking"]
  /\ UNCHANGED <<now, contracts, given, uploadRequest, localRefs, memories,
                 reportedUnlocked, lastReport, particles>>
  /\ UNCHANGED <<isLoading, additions>>
  /\ UNCHANGED <<engineVars, pageVars>>

\* isMemoryUnlocked: getApplicationByID rejects, the error is thrown on
LookupFails ==
  /\ retrieval.pc = "checking"
  /\ retrieval' = [retrieval EXCEPT !.pc = "failed",
                                    !.error = "Failed to check memory unlock status"]
  /\ UNCHANGED <<now, contracts, given, uploadRequest, localRefs, memories,
                 reportedUnlocked, lastReport, particles>>
  /\ UNCHANGED <<isLoading, additions>>
  /\ UNCHANGED <<engineVars, pageVars>>

\* isMemoryUnlocked reads the contract, retrieveVoiceMemory acts on the answer
IsMemoryUnlocked ==
  /\ retrieval.pc = "checking"
  /\ LET m == retrieval.memory
         ts == contracts[localRefs[m].contractId]
     IN IF ts = NoTimestamp
          THEN /\ retrieval' =
                    [retrieval EXCEPT !.pc = "failed",
                       !.error = "Unlock timestamp not found in contract state"]
               /\ UNCHANGED <<reportedUnlocked, lastReport>>
          ELSE LET u == IsUnlocked(now, ts) IN
               /\ lastReport' = [lastReport EXCEPT ![m] = IF u THEN "unlocked" ELSE "locked"]
               /\ reportedUnlocked' = [reportedUnlocked EXCEPT ![m] = @ \/ u]
               /\ retrieval' =
                    IF u THEN [retrieval EXCEPT !.pc = "fetching",
                                                !.checked = Lock(m, now)]
                         ELSE [retrieval EXCEPT !.pc = "failed",
                                                !.checked = Lock(m, now),
                                                !.error = "Memory is still time-locked"]
  /\ UNCHANGED <<now, contracts, given, uploadRequest, localRefs, memories, particles>>
  /\ UNCHANGED <<isLoading, additions>>
  /\ UNCHANGED <<engineVars, pageVars>>

\* retrieveFromIPFS returns the encrypted blob
RetrieveFromIPFS ==
  /\ retrieval.pc = "fetching"
  /\ retrieval' = [retrieval EXCEPT !.pc = "decrypting",
                                    !.fetched = Lock(retrieval.memory, now)]
  /\ UNCHANGED <<now, contracts, given, uploadRequest, localRefs, memories,
                 reportedUnlocked, lastReport, particles>>
  /\ UNCHANGED <<isLoading, additions>>
  /\ UNCHANGED <<engineVars, pageVars>>

\* retrieveFromIPFS throws: the response is not ok
RetrieveFromIPFSFails ==
  /\ retrieval.pc = "fetching"
  /\ retrieval' = [retrieval EXCEPT !.pc = "failed",
                                    !.error = "Failed to retrieve from IPFS"]
  /\ UNCHANGED <<now, contracts, given, uploadRequest, localRefs, memories,
                 reportedUnlocked, lastReport, particles>>
  /\ UNCHANGED <<isLoading, additions>>
  /\ UNCHANGED <<engineVars, pageVars>>

\* decryptAudio, then return { audioBlob, metadata, isUnlocked: true }
DecryptAudio ==
  /\ retrieval.pc = "decrypting"
  /\ retrieval' = [retrieval EXCEPT !.pc = "returned",
                                    !.returned = Lock(retrieval.memory, now)]
  /\ UNCHANGED <<now, contracts, given, uploadRequest, localRefs, memories,
                 reportedUnlocked, lastReport, particles>>
  /\ UNCHANGED <<isLoading, additions>>
  /\ UNCHANGED <<engineVars, pageVars>>

\* floating particles: Math.floor(Math.floor(intensity * 15) * multiplier)
EmotionMultipliers(tone) ==
  CASE tone = "Excited" -> 15
    [] tone = "Joyful" -> 13
    [] tone = "Anxious" -> 14
    [] tone = "Angry" -> 12
    [] tone = "Sad" -> 6
    [] tone = "Peaceful" -> 7
    [] tone = "Melancholic" -> 5
    [] OTHER -> 10

getParticleCount(tone, intensity) ==
  (((intensity * 15) \div IntensityUnit) * EmotionMultipliers(tone)) \div 10

\* the playback page renders EmotionVisualizer for a memory that is not locked
EmotionVisualizer(id) ==
  /\ id <= Len(memories)
  /\ ~MemoryOf(id).isLocked
  /\ particles' = getParticleCount(MemoryOf(id).emotion.tone,
                                   MemoryOf(id).emotion.intensity)
  /\ UNCHANGED <<now, contracts, given, uploadRequest, localRefs, memories,
                 retrieval, reportedUnlocked, lastReport>>
  /\ UNCHANGED <<isLoading, additions>>
  /\ UNCHANGED <<engineVars, pageVars>>

NextStorage ==
  \/ AddMemoryCall
  \/ EncryptAudio
  \/ AddMemory
  \/ AddMemoryFails
  \/ Tick
  \/ \E m \in 1..MaxMemories : RetrieveVoiceMemory(m)
  \/ LookupFails
  \/ IsMemoryUnlocked
  \/ RetrieveFromIPFS
  \/ RetrieveFromIPFSFails
  \/ DecryptAudio
  \/ \E id \in 1..MaxMemories : EmotionVisualizer(id)

SpecStorage == Init /\ [][NextStorage]_vars

(***************************************************************************)
(* Properties.                                                             *)
(***************************************************************************)
Done == pc = "done"

Analysed == pc = "extracted" \/ pc = "done"

WellFormedIntensity(x) == IsFinite(x) /\ HalfIntensity <= x /\ x <= IntensityUnit

AllZero(cd) == \A k \in 1..Len(cd) : cd[k].v = 0

NeutralResult == [tone |-> Neutral, intensity |-> HalfIntensity]

\* C1: whatever the feature vector and the jitter draws, the returned intensity is a
\* number in [0.5, 1.0], in the weighted-score build and in the gated-cascade build.
C1_IntensityInRange == Done => WellFormedIntensity(emotion.intensity)

\* an infinite feature that drives a score to Infinity, and a NaN feature, both classified
C1_Witness ==
  /\ Done
  /\ \/ build = "weighted" /\ features.silenceRatio = PosInf /\ emotion.intensity = IntensityUnit
     \/ build = "gated" /\ features.averageAmplitude = NaN

C3_AllZeroIsNeutral ==
  (Done /\ Length(channelData) >= 1 /\ AllZero(channelData)) =>
    (features.silenceRatio = Scale /\ emotion.tone = Neutral)

\* C4: a non-empty buffer of fewer than 512 samples is classified Neutral with intensity 0.5.
C4_ShortIsNeutral ==
  (Done /\ Length(channelData) >= 1 /\ Length(channelData) < 512) =>
    emotion = NeutralResult

\* C5: for a buffer of fewer than 2048 samples the analysis returns a well-formed result:
\* the tone is one of the sixteen candidates or Neutral, the intensity a number in [0.5, 1.0].
C5_ShortWellFormed ==
  (Done /\ Length(channelData) < 2048) =>
    /\ emotion.tone \in ToneSet \cup {Neutral}
    /\ WellFormedIntensity(emotion.intensity)

\* buffers of 0, 1 and 2047 samples have been classified
C5_Witness ==
  /\ Done
  /\ \/ Length(channelData) = 0 /\ emotion.tone = Neutral
     \/ Length(channelData) = 1 /\ emotion.tone # Neutral
     \/ Length(channelData) > 1025 /\ Length(channelData) < 2048
        /\ emotion.intensity > HalfIntensity

\* C6: every field of the feature vector the extractor produces is a finite number.
C6_FeaturesFinite == Analysed => \A fld \in FeatureFields : IsFinite(features[fld])

\* the normalization determineEmotionFromFeatures of the build applies
UsedNormalization(f) == IF build = "gated" THEN NormalizeGated(f) ELSE Normalize(f)

InUnitRange(x) == IsFinite(x) /\ 0 <= x /\ x <= Scale

NormalizedFields ==
  {"amplitude", "variance", "zcr", "centroid", "tempo", "pitchVar", "lowFreq",
   "highFreq", "stability"}

\* C7: every normalized value handed to the scorers lies in [0, 1].
C7_NormalizedInUnitRange ==
  Analysed => \A fld \in NormalizedFields : InUnitRange(UsedNormalization(features)[fld])

\* clamp to [0, 1] as the specification words it; it says nothing about NaN
DocumentedClamp(x) ==
  IF x = NaN THEN NaN ELSE IF x < 0 THEN 0 ELSE IF x > Scale THEN Scale ELSE x

\* the scale factors of the specification
DocumentedNormalization(f) ==
  [ amplitude |-> DocumentedClamp(XMulC(f.averageAmplitude, 20)),
    variance  |-> DocumentedClamp(XMulC(f.energyVariance, 10)),
    zcr       |-> DocumentedClamp(XDivC(XMulC(f.zeroCrossingRate, 100), 5)),
    centroid  |-> DocumentedClamp(XDivC(f.spectralCentroid, 2000)),
    tempo     |-> DocumentedClamp(XDivC(f.tempo, 100)),
    pitchVar  |-> DocumentedClamp(XMulC(f.pitchVariation, 5)),
    lowFreq   |-> DocumentedClamp(XMulC(f.lowFrequencyEnergy, 10)),
    highFreq  |-> DocumentedClamp(XMulC(f.highFrequencyEnergy, 10)),
    stability |-> DocumentedClamp(XMulC(f.voiceStability, 3)) ]

\* the raw features that are normalized, and those the weighted scorers read raw
NormalizedInputs ==
  { "averageAmplitude", "energyVariance", "zeroCrossingRate", "spectralCentroid",
    "tempo", "pitchVariation", "lowFrequencyEnergy", "highFrequencyEnergy",
    "voiceStability" }

RawInputs == {"silenceRatio", "duration", "breathingPatterns"}

\* what the classifier of the build returns for f with the draws of this classification
Reclassified(f) ==
  IF build = "gated" THEN determineEmotionGated(f, randomFactor)
  ELSE determineEmotionFromFeatures(f, jitter, randomFactor)

\* the result does not change when field fld alone is set to x
Ignores(fld, x) == Reclassified([features EXCEPT ![fld] = x]) = emotion

FiniteTerms(t) == \A i \in 1..Len(t) : IsFinite(t[i])

MinTerm(t) == CHOOSE x \in {t[i] : i \in 1..Len(t)} : \A i \in 1..Len(t) : x <= t[i]

MaxTerm(t) == CHOOSE x \in {t[i] : i \in 1..Len(t)} : \A i \in 1..Len(t) : x >= t[i]

\* C9: every candidate score is a weighted sum of 3 or 4 terms with weights that sum to
\* 1.0, times one jitter factor in [0.8, 1.2]; so a score divided by its jitter lies
\* between the least and the largest of its terms.
C9_WeightsSumToOne ==
  /\ \A e \in ToneSet : Len(Weights[e]) \in {3, 4} /\ SumSeq(Weights[e]) = 100
  /\ (Done /\ build = "weighted") =>
       \A e \in ToneSet :
         LET t == Terms(features)[e] IN
         /\ jitter[e] >= 8 /\ jitter[e] <= 12
         /\ emotionScores[e] = XMulC(WeightedSum(t, Weights[e]), jitter[e])
         /\ FiniteTerms(t) =>
              /\ emotionScores[e] >= MinTerm(t) * 100 * jitter[e]
              /\ emotionScores[e] <= MaxTerm(t) * 100 * jitter[e]

\* two candidates drew different factors, and a score lies strictly between its terms
C9_Witness ==
  /\ Done
  /\ build = "weighted"
  /\ jitter["Contemplative"] = 12
  /\ jitter["Joyful"] = 8
  /\ LET t == Terms(features)["Contemplative"] IN
       /\ FiniteTerms(t)
       /\ emotionScores["Contemplative"] > MinTerm(t) * 1200
       /\ emotionScores["Contemplative"] < MaxTerm(t) * 1200

\* candidate e has a maximal score: a number that no other score exceeds
IsMaximal(e) ==
  /\ emotionScores[e] # NaN
  /\ \A e2 \in ToneSet : emotionScores[e2] # NaN => emotionScores[e2] <= emotionScores[e]

\* position in the catalog
Position(e) == CHOOSE k \in 1..Len(Tones) : Tones[k] = e

\* C10: the classifier returns the candidate whose jittered score is maximal, and of
\* several with the same maximal score the one declared first in the catalog.
C10_ReturnsFirstMaximal ==
  (Done /\ build = "weighted") =>
    \A e \in ToneSet :
      (IsMaximal(e) /\ \A e2 \in ToneSet : IsMaximal(e2) => Position(e) <= Position(e2))
      => emotion.tone = e

\* two candidates share the maximal score and the earlier one was returned
C10_Witness ==
  /\ Done
  /\ build = "weighted"
  /\ \E e \in ToneSet, e2 \in ToneSet :
       /\ Position(e) < Position(e2)
       /\ IsMaximal(e)
       /\ IsMaximal(e2)
       /\ emotion.tone = e

\* no candidate has a score greater than zero (a NaN score is not greater than anything)
NoPositiveScore == \A e \in ToneSet : ~XGt(emotionScores[e], 0)

\* C11: when no candidate's score is strictly greater than zero, the weighted-score
\* classifier returns Neutral with intensity 0.5.
C11_NoPositiveScoreIsNeutral ==
  (Done /\ build = "weighted" /\ NoPositiveScore) => emotion = NeutralResult

\* the scores that are numbers are exactly zero, the others are NaN
C11_Witness ==
  /\ Done
  /\ build = "weighted"
  /\ NoPositiveScore
  /\ emotionScores["Excited"] = 0
  /\ emotionScores["Joyful"] = NaN
  /\ emotion.tone = Neutral

\* values of a normalized feature: 0, 0.25, 0.5, 0.75, 1
Grid == <<0, Scale \div 4, Scale \div 2, (3 * Scale) \div 4, Scale>>

\* the largest weight of candidate e
MaxWeight(e) ==
  CHOOSE w \in {Weights[e][i] : i \in 1..4} : \A i \in 1..4 : Weights[e][i] <= w

\* the terms of candidate e that carry its largest weight
HeaviestTerms(e) == {i \in 1..4 : Weights[e][i] = MaxWeight(e)}

\* the terms of candidate e when input number i of its score function is x and the
\* other inputs are those of v
TermsWith(e, i, v, x) == ScoreTerms(e, [v EXCEPT ![ScoreInputs[e][i]] = x])

\* the score of candidate e for each value of the grid as input number i, with jitter j
ScoresOnGrid(e, i, v, j) ==
  << Jittered(TermsWith(e, i, v, Grid[1]), Weights[e], j),
     Jittered(TermsWith(e, i, v, Grid[2]), Weights[e], j),
     Jittered(TermsWith(e, i, v, Grid[3]), Weights[e], j),
     Jittered(TermsWith(e, i, v, Grid[4]), Weights[e], j),
     Jittered(TermsWith(e, i, v, Grid[5]), Weights[e], j) >>

\* the term that reads input number i, for each value of the grid
TermOnGrid(e, i, v) ==
  << TermsWith(e, i, v, Grid[1])[i], TermsWith(e, i, v, Grid[2])[i],
     TermsWith(e, i, v, Grid[3])[i], TermsWith(e, i, v, Grid[4])[i],
     TermsWith(e, i, v, Grid[5])[i] >>

\* raising input number i of candidate e from one grid value to the next never lowers
\* its score
NeverDecreases(e, i, v, j) ==
  LET s == ScoresOnGrid(e, i, v, j) IN \A k \in 1..4 : ~XLt(s[k + 1], s[k])

\* the score does not fall from one grid value to the next where the term does not
FollowsTerm(e, i, v, j) ==
  LET s == ScoresOnGrid(e, i, v, j)
      t == TermOnGrid(e, i, v)
  IN \A k \in 1..4 : ~XLt(t[k + 1], t[k]) => ~XLt(s[k + 1], s[k])

\* C13 as stated: with the jitter fixed, raising the feature that carries the largest
\* weight of a candidate never lowers the score of that candidate, for all sixteen.
C13_HeaviestFeatureMonotone ==
  (Done /\ build = "weighted") =>
    LET v == ScorerInputs(features) IN
    \A e \in ToneSet : \A i \in HeaviestTerms(e) : NeverDecreases(e, i, v, jitter[e])

\* the candidates whose heaviest terms are the features themselves
DirectCandidates ==
  { "Joyful", "Excited", "Hopeful", "Grateful", "Determined", "Contemplative", "Angry",
    "Frustrated" }

\* C13 amended: the statement holds for the candidates whose heaviest terms are features
\* taken as they are; for every candidate the score never falls when a heaviest term
\* (for the others an inverted one, Math.max(0, c - x) or 1 - Math.abs(x - c)) rises.
C13_HeaviestTermMonotone ==
  (Done /\ build = "weighted") =>
    LET v == ScorerInputs(features) IN
    /\ \A e \in DirectCandidates : \A i \in HeaviestTerms(e) :
         NeverDecreases(e, i, v, jitter[e])
    /\ \A e \in ToneSet \ DirectCandidates : \A i \in HeaviestTerms(e) :
         FollowsTerm(e, i, v, jitter[e])

\* for a vector of numbers, Joyful rises with the amplitude and Sad falls with it
C13_Witness ==
  /\ Done
  /\ build = "weighted"
  /\ \A fld \in FeatureFields : IsFinite(features[fld])
  /\ 1 \in HeaviestTerms("Joyful")
  /\ 1 \in HeaviestTerms("Sad")
  /\ LET v == ScorerInputs(features)
         joyful == ScoresOnGrid("Joyful", 1, v, jitter["Joyful"])
         sad == ScoresOnGrid("Sad", 1, v, jitter["Sad"])
     IN XGt(joyful[5], joyful[1]) /\ XLt(sad[5], sad[1])

\* a normalized feature is high: above the middle of its range
High(x) == IsFinite(x) /\ x > Scale \div 2

\* C14: for the constant buffer at 0.9 (44100 Hz, 5 seconds) the normalized amplitude and
\* the normalized tempo are both high and the tone is Joyful or Excited, whatever the draws.
C14_LoudIsHighEnergy ==
  (Done /\ channelData = ScenarioA.cd /\ sampleRate = ScenarioA.sampleRate) =>
    /\ High(UsedNormalization(features).amplitude)
    /\ High(UsedNormalization(features).tempo)
    /\ emotion.tone \in {"Joyful", "Excited"}

\* every sample of cd is below 0.01 in absolute value
NearSilent(cd) == \A k \in 1..Len(cd) : Abs(cd[k].v) * 100 < SampleDen

\* C15: for a 10-second buffer with every sample below 0.01 in absolute value the
\* silenceRatio is 1.0 and the tone is Peaceful, Melancholic, Lonely or Neutral,
\* whatever the draws.
C15_NearSilentIsCalm ==
  (Done /\ NearSilent(channelData) /\ features.duration = 10 * Scale) =>
    /\ features.silenceRatio = Scale
    /\ emotion.tone \in {"Peaceful", "Melancholic", "Lonely", Neutral}

\* C16: an analyzeEmotion run whose read and decode succeeded never sets the
\* error state and, once ended, has delivered exactly one result to
\* onAnalysisComplete; a run whose read or decode failed has delivered none
\* and has set the error state; isAnalyzing of the instance that started a run
\* is false once that run has ended.
C16_RunOutcome ==
  \A r \in 1..Len(runs) :
    /\ runs[r].pc \in {"waiting", "done"} =>
         ~runs[r].errorSet /\ runs[r].delivered <= 1
    /\ runs[r].pc = "done" => runs[r].delivered = 1
    /\ runs[r].pc = "failed" =>
         runs[r].delivered = 0 /\ runs[r].errorSet /\ (mounted = r => error)
    /\ Ended(runs[r]) => ~(mounted = r /\ isAnalyzing)

\* one run has delivered, another has failed and its instance is still shown
C16_Witness ==
  \E r, q \in 1..Len(runs) :
    /\ runs[r].pc = "done" /\ runs[r].delivered = 1
    /\ runs[q].pc = "failed" /\ mounted = q /\ error /\ ~isAnalyzing

\* C17: the result of an analysis whose recording was cleared while the
\* analysis was in flight never becomes the RecordPage emotion.
C17_AbandonedResultDiscarded ==
  emotionSource # 0 => ~runs[emotionSource].abandoned

\* C18: what a run delivers is what the classifier gives for the features of
\* that run's own recording and that run's own draws, whatever other runs
\* did in between.
C18_ConcurrentRunsIndependent ==
  \A r \in 1..Len(runs) :
    runs[r].pc = "done" =>
      runs[r].result = Classify(build, RecordingFeatures[runs[r].blob], runs[r].draws)

\* two runs on different recordings were in flight together and both delivered
C18_Witness ==
  \E r, q \in 1..Len(runs) :
    /\ r < q /\ runs[q].overlapped
    /\ runs[r].pc = "done" /\ runs[q].pc = "done"
    /\ runs[r].blob # runs[q].blob
    /\ runs[r].result # runs[q].result

\* C19: retrieveVoiceMemory does not fetch, decrypt or return the audio of a
\* memory while the clock reads earlier than the unlock timestamp of its
\* contract; a retrieval whose check found the memory locked has failed with
\* 'Memory is still time-locked'; and after isMemoryUnlocked has reported a
\* memory unlocked, its later reports are unlocked too.
C19_TimeLock ==
  /\ retrieval.fetched # "locked" /\ retrieval.returned # "locked"
  /\ retrieval.pc \in {"fetching", "decrypting", "returned"} =>
       retrieval.checked = "open" /\ Lock(retrieval.memory, now) = "open"
  /\ retrieval.checked = "locked" =>
       retrieval.pc = "failed" /\ retrieval.error = "Memory is still time-locked"
  /\ \A m \in 1..Len(localRefs) :
       reportedUnlocked[m] => lastReport[m] = "unlocked"

\* a retrieval was made half a second before the unlock timestamp and refused
C19_Witness ==
  /\ retrieval.pc = "failed"
  /\ retrieval.checked = "locked"
  /\ retrieval.error = "Memory is still time-locked"
  /\ (now + 1) \div TicksPerSecond = contracts[localRefs[retrieval.memory].contractId]

\* C20: the emotion given to addMemory is the emotion of the upload request,
\* of the stored local reference and of the in-memory VoiceMemory, with the
\* same tone and the same intensity, whatever was stored, retrieved or
\* visualized since.
C20_EmotionUnchanged ==
  /\ (given # <<>> /\ Sent(additions[Len(given)])) => uploadRequest = given[Len(given)]
  /\ \A k \in 1..Len(localRefs) :
       /\ localRefs[k].emotion = given[localRefs[k].call]
       /\ MemoryOf(k).emotion = given[MemoryOf(k).call]
       /\ MemoryOf(k).call = localRefs[k].call

\* a memory whose intensity is not a whole number of thousandths was stored,
\* retrieved and visualized
C20_Witness ==
  /\ localRefs # <<>>
  /\ given[localRefs[1].call].intensity % (IntensityUnit \div 1000) # 0
  /\ retrieval.pc = "returned"
  /\ particles >= 0

\* the complete non-overlapping windows of a buffer
CompleteWindows(cd, windowSize) == Length(cd) \div windowSize

\* standard deviation of the mean-square energy of the first n 1024-sample windows
EnergyDeviation(cd, n) ==
  LET energies == [k \in 1..n |->
                     SqScaled(SumSq(cd, (k - 1) * 1024, k * 1024)) \div 1024]
  IN IF n < 2 THEN 0 ELSE ISqrt(Variance(energies))

\* C21: energyVariance is the standard deviation of the mean-square energy
\* over every complete 1024-sample window, floor(L / 1024) of them, and 0
\* with fewer than 2 of them.
C21_EnergyVarianceEveryWindow ==
  Analysed =>
    features.energyVariance =
      EnergyDeviation(channelData, CompleteWindows(channelData, 1024))

\* adjacent sample pairs whose signs differ
Crossings(cd) == Cardinality({k \in 2..Len(cd) : (cd[k].v >= 0) # (cd[k - 1].v >= 0)})

\* C22: zeroCrossingRate is the number of adjacent sample pairs whose signs
\* differ divided by the number of adjacent sample pairs, L - 1.
C22_CrossingsPerPair ==
  (Analysed /\ Length(channelData) >= 2) =>
    features.zeroCrossingRate = XRatio(Crossings(channelData), Length(channelData) - 1)

\* C23: the low-frequency energy is the sum of the squares of the first
\* min(512, L) samples divided by min(512, L).
C23_LowEnergyMean ==
  (Analysed /\ Length(channelData) > 0) =>
    LET n == Min2(512, Length(channelData))
    IN features.lowFrequencyEnergy = SqScaled(SumSq(channelData, 0, n)) \div n

\* the features computed from a list of windows, with the size of their window
WindowSizes(sr) ==
  [energyVariance |-> 1024, tempo |-> sr \div 10, pitchVariation |-> 1024,
   voiceStability |-> 2048, breathingPatterns |-> sr \div 2]

\* C24: a feature computed from a list of windows is exactly 0 whenever the
\* buffer, here a non-empty one, gives fewer than 2 of its windows.
C24_FewWindowsGiveZero ==
  (Analysed /\ Length(channelData) > 0) =>
    \A f \in DOMAIN WindowSizes(sampleRate) :
      NumWindows(Length(channelData), WindowSizes(sampleRate)[f]) < 2 =>
        features[f] = 0

\* the priority order of the gated rules
GatedOrder ==
  <<"Sad", "Anxious", "Worried", "Angry", "Frustrated", "Melancholic", "Excited",
    "Joyful", "Hopeful", "Nostalgic", "Peaceful", "Grateful", "Confused",
    "Determined", "Contemplative", "Lonely">>

\* the positions in that order of the rules whose predicate holds
Matches(f) == {k \in 1..Len(GatedOrder) : Gate(GatedOrder[k], f)}

\* C25: the gated cascade returns the tone of the first rule, in the order
\* Sad .. Lonely, whose predicate holds, with an intensity of at least 0.6,
\* and Neutral with intensity exactly 0.5 when no predicate holds.
C25_FirstMatchWins ==
  (Done /\ build = "gated") =>
    IF Matches(features) = {}
      THEN emotion = NeutralResult
      ELSE /\ emotion.tone \in {GatedOrder[k] : k \in Matches(features)}
           /\ \A k \in Matches(features) :
                GatedOrder[k] = emotion.tone => \A j \in Matches(features) : k <= j
           /\ emotion.intensity >= 6 * (IntensityUnit \div 10)
           /\ emotion.intensity <= IntensityUnit

\* two rules hold and the earlier one is returned
C25_Witness ==
  /\ Done /\ build = "gated"
  /\ Cardinality(Matches(features)) >= 2
  /\ \E k \in Matches(features) :
       GatedOrder[k] = emotion.tone /\ \A j \in Matches(features) : k <= j

AllFinite(f) == \A fld \in FeatureFields : IsFinite(f[fld])

\* 0.3 * 0.5 * 0.8
NostalgicFloor == 12 * (ScoreUnit \div 100)

\* 0.2 * 0.5 * 0.8
GratefulFloor == 8 * (ScoreUnit \div 100)

AtLeast(x, floor) == IsFinite(x) /\ x >= floor

UnjitteredSums(f) == [e \in ToneSet |-> WeightedSum(Terms(f)[e], Weights[e])]

\* candidate w has a sum that is a number and at least 2/3 of every sum that is a number
WithinTwoThirds(w, sums) ==
  /\ sums[w] # NaN
  /\ \A e \in ToneSet :
       sums[e] # NaN => ~XLt(XMulC(sums[w], 3), XMulC(sums[e], 2))

\* the intensity is the clamped product of the winner's sum and two factors of
\* [0.8, 1.2] (in tenths), whose product is in [0.64, 1.44]
TwiceJittered(w, sums) ==
  /\ emotion.intensity = FinalIntensity(XMulC(sums[w], jitter[w]), randomFactor)
  /\ 64 <= jitter[w] * randomFactor
  /\ jitter[w] * randomFactor <= 144

C28_NeverAnxious ==
  /\ Analysed =>
       /\ IsFinite(features.breathingPatterns)
       /\ 0 <= features.breathingPatterns
       /\ features.breathingPatterns <= Scale \div 2
       /\ ~Gate("Anxious", features)
  /\ (Done /\ build = "gated") => emotion.tone # "Anxious"

\* one silent and one loud half-second window: the irregularity is exactly 0.5
C28_Witness ==
  /\ Done
  /\ build = "gated"
  /\ features.breathingPatterns = Scale \div 2

\* the page's emotion is the result of an invocation whose recording is still the
\* page's audioBlob
EmotionOfCurrentBlob ==
  /\ emotionSource # 0
  /\ ~runs[emotionSource].cleared
  /\ pageEmotion = runs[emotionSource].result

\* C29: every memory handleUpload passes to addMemory carries the emotion computed
\* from the audioBlob being uploaded, never a result left over from an earlier, cleared
\* recording.
C29_UploadedEmotionIsOfBlob == [][HandleUpload => EmotionOfCurrentBlob]_vars

RefsOfCall(k) == {r \in 1..Len(localRefs) : localRefs[r].call = k}

MemoriesOfCall(k) == {m \in 1..Len(memories) : memories[m].call = k}

\* C30: a local reference is stored only for a call whose upload response was ok with
\* success = true; a call that failed in encryption, in the request or in the response
\* check threw 'Storage failed: ...' and has no local reference and no memory, so both
\* lists are as they were; and isLoading is true only while a call is pending.
C30_FailedUploadStoresNothing ==
  /\ Len(additions) = Len(given)
  /\ \A k \in 1..Len(additions) :
       /\ additions[k].response = "success" <=> additions[k].pc = "stored"
       /\ additions[k].pc = "stored" =>
            Cardinality(RefsOfCall(k)) = 1 /\ Cardinality(MemoriesOfCall(k)) = 1
       /\ additions[k].pc # "stored" =>
            RefsOfCall(k) = {} /\ MemoriesOfCall(k) = {}
       /\ additions[k].pc = "failed" =>
            /\ additions[k].error = "Storage failed"
            /\ additions[k].cause \in EncryptionFailures \cup ResponseFailures
  /\ Len(localRefs) = Cardinality({k \in 1..Len(additions) : additions[k].pc = "stored"})
  /\ Len(memories) = Len(localRefs)
  /\ isLoading <=> \E k \in 1..Len(additions) : Pending(additions[k])

\* the response of a sent request reported no success: nothing stored, isLoading reset
C30_Witness ==
  /\ additions # <<>>
  /\ additions[Len(additions)].pc = "failed"
  /\ additions[Len(additions)].cause = "no success"
  /\ uploadRequest = given[Len(given)]
  /\ RefsOfCall(Len(additions)) = {}
  /\ ~isLoading

====
